---- MODULE Spec2Model ----
(***************************************************************************)
(* wsl2backup: one run of the backup pipeline of src/wsl2backup.go.        *)
(*                                                                         *)
(* Strings are sequences of one-character strings, so that the text        *)
(* operations of the program (strings.Split, strings.Replace,              *)
(* strings.Fields, strings.EqualFold, the UTF-16 decoding of wslCmd) are   *)
(* computed as the code computes them.  The host tool, the compact         *)
(* utility and the filesystem are the environment: every answer they can   *)
(* give is a nondeterministic choice.                                      *)
(***************************************************************************)
EXTENDS Integers, Sequences, FiniteSets, TLC

VARIABLES
    distro,     \* flag -distro: the target guest name
    outfmt,     \* flag -f
    outzip,     \* flag -z
    term,       \* flag -t
    compact,    \* flag -c
    keep,       \* flag -keep
    registry,   \* the host's guest registry: what "wsl -l -v" would list now
    pc,         \* position of main
    nfo,        \* the record distroCheck matched in its current frame
    returned,   \* whether the outermost distroCheck has returned to main
    ready,      \* first result of distroCheck
    err,        \* second result of distroCheck ("nil" when none)
    errName,    \* the guest name the error message of distroCheck carries
    fatal,      \* the log.Fatal that ended main ("none" when none)
    cmds,       \* history: the external commands run, in order
    reads,      \* history: every successful registry read: the record its
                \* loop stopped at and what the registry held for the target
    exportSaw,  \* history: what the registry held for the target when export ran
    ofile,      \* the export file: NoFile or its bytes
    zfile,      \* the sibling .zip file: NoFile or its entries
    removed,    \* history: number of os.Remove calls on the export file
    zipStep,    \* history: the step of zipFile that failed ("none" when none)
    cout,       \* history: the answer of the compact utility and compactFile's result
    exit        \* process exit: "running", "0" or "1"

vars == <<distro, outfmt, outzip, term, compact, keep, registry, pc, nfo, returned,
          ready, err, errName, fatal, cmds, reads, exportSaw, ofile, zfile, removed, zipStep, cout, exit>>

(***************************************************************************)
(* Bounds of the model.                                                    *)
(***************************************************************************)
\* terminate commands after which the model stops following the recursion
MaxTerminate == 2
\* longest export file, in bytes
MaxBytes == 2

(***************************************************************************)
(* Text.                                                                   *)
(***************************************************************************)
SP == " "
CR == "\r"
LF == "\n"
CRLF == <<CR, LF>>

sStopped == <<"S", "t", "o", "p", "p", "e", "d">>
sRunning == <<"R", "u", "n", "n", "i", "n", "g">>
sstopped == <<"s", "t", "o", "p", "p", "e", "d">>
sInstalling == <<"I", "n", "s", "t", "a", "l", "l", "i", "n", "g">>
skali == <<"k", "a", "l", "i">>
sKali == <<"K", "a", "l", "i">>
sdeb == <<"d", "e", "b">>
sEmpty == <<>>
sVersion == <<"2">>
sExtra == <<"x">>
sHeader == <<"N", "A", "M", "E", SP, "S", "T", "A", "T", "E", SP, "V", "E", "R">>

\* the literal "* " of strings.Replace(d, "* ", "", -1)
sMarker == <<"*", SP>>
\* the literal of wslList
wslList == <<"-", "l", SP, "-", "v">>
sTerminate == <<"-", "-", "t", "e", "r", "m", "i", "n", "a", "t", "e", SP>>
sExport == <<"-", "-", "e", "x", "p", "o", "r", "t", SP>>
sVhd == <<SP, "-", "-", "v", "h", "d">>
sOut == <<"o", "u", "t">>

HasPrefixAt(s, p, i) ==
    /\ i + Len(p) - 1 <= Len(s)
    /\ \A k \in 1..Len(p) : s[i + k - 1] = p[k]

RECURSIVE SplitFrom(_, _, _, _)
SplitFrom(s, sep, i, cur) ==
    IF i > Len(s) THEN <<cur>>
    ELSE IF HasPrefixAt(s, sep, i)
         THEN <<cur>> \o SplitFrom(s, sep, i + Len(sep), <<>>)
         ELSE SplitFrom(s, sep, i + 1, Append(cur, s[i]))

\* strings.Split(s, sep) for a non-empty sep
Split(s, sep) == SplitFrom(s, sep, 1, <<>>)

RECURSIVE RemoveFrom(_, _, _)
RemoveFrom(s, old, i) ==
    IF i > Len(s) THEN <<>>
    ELSE IF HasPrefixAt(s, old, i)
         THEN RemoveFrom(s, old, i + Len(old))
         ELSE <<s[i]>> \o RemoveFrom(s, old, i + 1)

\* strings.Replace(s, old, "", -1): every non-overlapping occurrence, left to right
RemoveAll(s, old) == RemoveFrom(s, old, 1)

IsSpace(c) == c \in {SP, "\t", LF, CR, "\f"}

RECURSIVE FieldsFrom(_, _, _)
FieldsFrom(s, i, cur) ==
    IF i > Len(s) THEN (IF cur = <<>> THEN <<>> ELSE <<cur>>)
    ELSE IF IsSpace(s[i])
         THEN (IF cur = <<>> THEN <<>> ELSE <<cur>>) \o FieldsFrom(s, i + 1, <<>>)
         ELSE FieldsFrom(s, i + 1, Append(cur, s[i]))

\* strings.Fields(s)
Fields(s) == FieldsFrom(s, 1, <<>>)

Upper == <<"A", "D", "E", "I", "K", "L", "N", "O", "P", "R", "S", "T", "U", "V">>
Lower == <<"a", "d", "e", "i", "k", "l", "n", "o", "p", "r", "s", "t", "u", "v">>

\* simple case folding of one character
Fold(c) ==
    IF \E i \in 1..Len(Upper) : Upper[i] = c
    THEN Lower[CHOOSE i \in 1..Len(Upper) : Upper[i] = c]
    ELSE c

\* strings.EqualFold(a, b)
EqualFold(a, b) ==
    /\ Len(a) = Len(b)
    /\ \A i \in 1..Len(a) : Fold(a[i]) = Fold(b[i])

RECURSIVE Join(_)
Join(ss) == IF ss = <<>> THEN <<>> ELSE Head(ss) \o Join(Tail(ss))

(***************************************************************************)
(* wslCmd's decoding: UTF-16 little endian with an optional byte-order     *)
(* mark.  A byte is the character whose code it is, or one of the three    *)
(* byte names below.                                                       *)
(***************************************************************************)
b00 == "00"
bFF == "FF"
bFE == "FE"
bReplacement == "?"

RECURSIVE Utf16LE(_, _)
Utf16LE(bytes, i) ==
    IF i > Len(bytes) THEN <<>>
    ELSE IF i = Len(bytes) THEN <<bReplacement>>
    ELSE <<(IF bytes[i + 1] = b00 THEN bytes[i] ELSE bReplacement)>>
         \o Utf16LE(bytes, i + 2)

\* unicode.BOMOverride(unicode.UTF16(LittleEndian, IgnoreBOM).NewDecoder())
DecodeUtf16(bytes) ==
    IF HasPrefixAt(bytes, <<bFF, bFE>>, 1)
    THEN Utf16LE(bytes, 3)
    ELSE Utf16LE(bytes, 1)

RECURSIVE EncodeUtf16LE(_)
EncodeUtf16LE(s) ==
    IF s = <<>> THEN <<>> ELSE <<Head(s), b00>> \o EncodeUtf16LE(Tail(s))


(***************************************************************************)
(* The host tool.  The registry is a sequence of guests; "wsl -l -v"       *)
(* prints a header and one line per guest.  A guest whose line carries     *)
(* two or four fields (nf = 2, nf = 4) stands for the lines the parser     *)
(* cannot split into three fields.                                         *)
(***************************************************************************)
Targets == {skali, sEmpty}

Guest(name, state, sel, nf) == [name |-> name, state |-> state, sel |-> sel, nf |-> nf]

\* the registries a run of the model starts from
Registries ==
    { <<>>,
      <<Guest(skali, sStopped, FALSE, 3)>>,
      <<Guest(sKali, sRunning, TRUE, 3)>>,
      <<Guest(skali, sstopped, FALSE, 3)>>,
      <<Guest(skali, sInstalling, TRUE, 3)>>,
      <<Guest(skali, sStopped, FALSE, 2)>>,
      <<Guest(sdeb, sRunning, TRUE, 3), Guest(skali, sStopped, FALSE, 3)>>,
      <<Guest(skali, sStopped, FALSE, 4), Guest(sKali, sRunning, FALSE, 3)>>,
      <<Guest(sKali, sRunning, TRUE, 3), Guest(skali, sStopped, FALSE, 3)>>,
      <<Guest(skali, sStopped, FALSE, 3), Guest(sKali, sRunning, TRUE, 3)>> }

HostLine(g) ==
    (IF g.sel THEN sMarker ELSE <<SP, SP>>) \o g.name \o <<SP>> \o g.state
        \o (IF g.nf >= 3 THEN <<SP>> \o sVersion ELSE <<>>)
        \o (IF g.nf >= 4 THEN <<SP>> \o sExtra ELSE <<>>)

\* the text "wsl -l -v" prints for a registry
HostListing(reg) ==
    sHeader \o CRLF \o Join([i \in 1..Len(reg) |-> HostLine(reg[i]) \o CRLF])

\* the bytes the host tool writes to its standard output
HostBytes(text, bom) ==
    (IF bom THEN <<bFF, bFE>> ELSE <<>>) \o EncodeUtf16LE(text)

\* how a run of an external command can end: "start" and "read" are the
\* failures of Start and ReadAll, "exit" is a failing Wait
Outcomes == {"start", "read", "exit", "ok"}

\* the answers of an external command: its outcome, and whether its output
\* starts with a byte-order mark
Answers == {a \in Outcomes \X BOOLEAN : a[1] = "start" => a[2] = FALSE}

(***************************************************************************)
(* wslCmd                                                                  *)
(***************************************************************************)
sWsl == <<"w", "s", "l">>

\* the argument vector of exec.Command(wsl, strings.Split(flags, " ")...)
wslArgs(flags) == <<sWsl>> \o Split(flags, <<SP>>)

\* wslCmd(flags), the host answering with `outcome` and the bytes `raw`
wslCmd(flags, outcome, raw) ==
    CASE outcome \in {"start", "read"} -> [result |-> <<>>, err |-> outcome]
      [] outcome = "exit" -> [result |-> raw, err |-> outcome]
      [] OTHER -> [result |-> DecodeUtf16(raw), err |-> "nil"]

(***************************************************************************)
(* distroCheck                                                             *)
(***************************************************************************)
NoInfo == [name |-> sEmpty, state |-> sEmpty, version |-> sEmpty]

\* the dinfo of one listing line
ParseLineLoose(d) ==
    LET fields == Fields(RemoveAll(d, sMarker))
    IN  IF Len(fields) >= 2
        THEN [name |-> fields[1], state |-> fields[2],
              version |-> IF Len(fields) >= 3 THEN fields[3] ELSE sEmpty]
        ELSE NoInfo

ParseLine(d) ==
    LET fields == Fields(RemoveAll(d, sMarker))
    IN  IF Len(fields) = 3
        THEN [name |-> fields[1], state |-> fields[2], version |-> fields[3]]
        ELSE NoInfo

\* the dinfo of every line of the listing `res`, the header's included
Infos(res) ==
    LET distros == Split(res, CRLF)
    IN  [i \in 1..Len(distros) |-> ParseLine(distros[i])]

Matches(info, d) == EqualFold(info.name, d)

\* the test of the matched record's state
IsStoppedFold(info) == EqualFold(info.state, sStopped)

IsStopped(info) == info.state = sStopped

\* the index at which the loop over the listing starts: the header is skipped
FirstLine == 2

\* the loop of distroCheck from line i on
RECURSIVE ScanFromLast(_, _, _)
ScanFromLast(infos, i, d) ==
    IF i > Len(infos) THEN 0
    ELSE IF ScanFromLast(infos, i + 1, d) # 0 THEN ScanFromLast(infos, i + 1, d)
    ELSE IF Matches(infos[i], d) THEN i
    ELSE 0

RECURSIVE ScanFrom(_, _, _)
ScanFrom(infos, i, d) ==
    IF i > Len(infos) THEN 0
    ELSE IF Matches(infos[i], d) THEN i
    ELSE ScanFrom(infos, i + 1, d)

\* the line at which the loop of distroCheck stops, 0 when it runs to the end
Scan(infos, d) == ScanFrom(infos, FirstLine, d)

\* what distroCheck does at the record `info` its loop stopped at
DecideTermFirst(info, t) ==
    IF t THEN "terminate"
    ELSE IF IsStopped(info) THEN "ready"
    ELSE "busy"

DecideAlwaysTerminate(info, t) ==
    IF IsStopped(info) THEN "ready" ELSE "terminate"

Decide(info, t) ==
    IF IsStopped(info) THEN "ready"
    ELSE IF t THEN "terminate"
    ELSE "busy"

(***************************************************************************)
(* wslExport, zipFile, compactFile                                         *)
(***************************************************************************)
sVhdx == <<"v", "h", "d", "x">>
sTar == <<"t", "a", "r">>
sZip == <<"z", "i", "p">>
sIso == <<"i", "s", "o">>
Formats == {sVhdx, sTar, sZip, sIso}

\* the command line wslExport builds
ExportCmd(d, format, of) ==
    sExport \o d \o (IF format = sVhdx THEN sVhd ELSE <<>>) \o <<SP>> \o of

NoFile == [exists |-> FALSE, data |-> <<>>]
File(bytes) == [exists |-> TRUE, data |-> bytes]

NoZip == [exists |-> FALSE, entries |-> <<>>, closed |-> FALSE]
ZipOf(fn, bytes, closed) ==
    [exists |-> TRUE, entries |-> <<[name |-> fn, data |-> bytes]>>, closed |-> closed]

\* the bytes an export writes
Exported == [i \in 1..MaxBytes |-> i]

\* the steps of zipFile that can return an error
ZipFailures == {"create", "entry", "open", "close", "ufclose"}

\* zipFile(fn) on the file `f`: `step` is the step that fails ("none" when
\* none does) and n the number of bytes io.Copy moves before it stops; the
\* result of io.Copy is dropped
zipFile(fn, f, old, step, n) ==
    CASE step = "create" -> [err |-> "create", zip |-> old]
      [] step = "entry" ->
            [err |-> "entry",
             zip |-> [exists |-> TRUE, entries |-> <<>>, closed |-> FALSE]]
      [] step = "open" -> [err |-> "open", zip |-> ZipOf(fn, <<>>, FALSE)]
      [] step = "close" ->
            [err |-> "close", zip |-> ZipOf(fn, SubSeq(f.data, 1, n), FALSE)]
      [] OTHER ->
            [err |-> (IF step = "ufclose" THEN "ufclose" ELSE "nil"),
             zip |-> ZipOf(fn, SubSeq(f.data, 1, n), TRUE)]

\* whether main removes the export file after a successful zipFile
RemovesOriginalAlways(k) == TRUE

RemovesOriginal(k) == ~k

sCompact == <<"c", "o", "m", "p", "a", "c", "t">>
sSlashC == <<"/", "c">>
\* the phrase compactFile looks for, and what the utility can print
sWithin == <<SP, "f", "i", "l", "e", "s", SP, "w", "i", "t", "h", "i", "n", SP, "1", SP, "d", "i", "r", "e", "c", "t", "o", "r", "i", "e", "s", SP, "w", "e", "r", "e", SP, "c", "o", "m", "p", "r", "e", "s", "s", "e", "d">>
sPhrase == <<"1">> \o sWithin
sZeroPhrase == <<"0">> \o sWithin
sError == <<"e", "r", "r", "o", "r">>
CompactOutputs ==
    {sPhrase, <<"o", "u", "t", SP>> \o sPhrase \o <<".">>, sZeroPhrase, sError, sEmpty}

\* what the utility can have printed when its run ends with `outcome`
CompactAnswers ==
    {a \in Outcomes \X CompactOutputs :
        /\ a[1] = "start" => a[2] = sEmpty
        /\ a[1] = "read" => a[2] \in {sError, sEmpty}}

\* strings.Contains(s, sub)
Contains(s, sub) == \E i \in 1..(Len(s) + 1) : HasPrefixAt(s, sub, i)

\* compactFile(fn), the utility answering with `outcome` and the text `out`
compactFileExitOnly(outcome, out) ==
    IF outcome # "ok" THEN [err |-> outcome, msg |-> <<>>]
    ELSE [err |-> "nil", msg |-> <<>>]

compactFile(outcome, out) ==
    IF outcome # "ok" THEN [err |-> outcome, msg |-> <<>>]
    ELSE IF Contains(out, sPhrase) THEN [err |-> "nil", msg |-> <<>>]
    ELSE [err |-> "compact failed", msg |-> out]

NoCompact == [ran |-> FALSE, outcome |-> "none", out |-> <<>>, err |-> "nil", msg |-> <<>>]

(***************************************************************************)
(* History.                                                                *)
(***************************************************************************)
Cmd(kind, argv, e) == [kind |-> kind, argv |-> argv, err |-> e]

Count(kind) == Cardinality({i \in 1..Len(cmds) : cmds[i].kind = kind})
nList == Count("list")
nTerminate == Count("terminate")
nExport == Count("export")
nCompact == Count("compact")
nZip == Count("zip")

\* the guests of the registry that `d` names: those listed on a well-formed
\* line under a name equal to d but for case
Named(reg, d) == {i \in 1..Len(reg) : reg[i].nf = 3 /\ EqualFold(reg[i].name, d)}

NoGuest == Guest(sEmpty, sEmpty, FALSE, 0)

\* one entry of `reads`: the record the loop stopped at, and from the
\* registry the first guest d names, how many guests d names and how many
\* malformed lines the listing holds before the first of them
Read(found, info, reg, d) ==
    LET named == Named(reg, d)
        first == IF named = {} THEN 0 ELSE CHOOSE i \in named : \A j \in named : i <= j
    IN  [found |-> found,
         info |-> info,
         first |-> IF first = 0 THEN NoGuest ELSE reg[first],
         named |-> Cardinality(named),
         malformed |-> Cardinality({i \in 1..Len(reg) :
                                       reg[i].nf # 3 /\ (first = 0 \/ i < first)})]

\* the state token the registry holds for the guest `d`, as a read done now
\* would report it: "-" when no line matches
TargetState(reg, d) ==
    LET infos == Infos(HostListing(reg))
    IN  IF Scan(infos, d) = 0 THEN <<"-">> ELSE infos[Scan(infos, d)].state

(***************************************************************************)
(* The run.                                                                *)
(***************************************************************************)
Init ==
    /\ distro \in Targets
    /\ outfmt \in Formats
    /\ outzip \in BOOLEAN
    /\ term \in BOOLEAN
    /\ compact \in BOOLEAN
    /\ keep \in BOOLEAN
    /\ registry \in Registries
    /\ pc = "main"
    /\ nfo = NoInfo
    /\ returned = FALSE
    /\ ready = FALSE
    /\ err = "nil"
    /\ errName = sEmpty
    /\ fatal = "none"
    /\ cmds = <<>>
    /\ reads = <<>>
    /\ exportSaw = <<>>
    /\ ofile = NoFile
    /\ zfile = NoZip
    /\ removed = 0
    /\ zipStep = "none"
    /\ cout = NoCompact
    /\ exit = "running"

Flags == <<distro, outfmt, outzip, term, compact, keep>>
Results == <<returned, ready, err, errName>>
Disk == <<ofile, zfile, removed, zipStep>>


\* main's switch on *outfmt
FormatCheck(format) ==
    IF format \in {sVhdx, sTar} THEN "none" ELSE "format"

\* main's check of the compression choice
ConflictCheckOmitted(z, c) == "none"

ConflictCheck(z, c) == IF z /\ c THEN "conflict" ELSE "none"

\* main, from flag.Parse to the call of distroCheck
Validate ==
    /\ pc = "main"
    /\ LET f == IF FormatCheck(outfmt) # "none" THEN FormatCheck(outfmt)
                ELSE ConflictCheck(outzip, compact)
       IN  /\ fatal' = f
           /\ pc' = IF f = "none" THEN "distroCheck" ELSE "fatal"
           /\ exit' = IF f = "none" THEN exit ELSE "1"
    /\ UNCHANGED <<Flags, registry, nfo, Results, cmds, reads, exportSaw, Disk, cout>>

\* what main does with the results of distroCheck
AfterCheckErrOnly(d, e) == IF e # "nil" THEN "check" ELSE "none"

AfterCheck(d, e) ==
    IF e # "nil" THEN "check"
    ELSE IF ~d THEN "notfound"
    ELSE "none"

\* distroCheck returns (d, e) to main
Return(d, e, name) ==
    /\ returned' = TRUE
    /\ ready' = d
    /\ err' = e
    /\ errName' = name
    /\ fatal' = AfterCheck(d, e)
    /\ pc' = IF AfterCheck(d, e) = "none" THEN "export" ELSE "fatal"
    /\ exit' = IF AfterCheck(d, e) = "none" THEN exit ELSE "1"

\* one frame of distroCheck, from its list command to its return or to the
\* terminate command
List ==
    /\ pc = "distroCheck"
    /\ \E a \in Answers :
       \E r \in {wslCmd(wslList, a[1], HostBytes(HostListing(registry), a[2]))} :
         /\ cmds' = Append(cmds, Cmd("list", wslArgs(wslList), r.err))
         /\ IF r.err # "nil"
            THEN /\ Return(FALSE, r.err, sEmpty)
                 /\ UNCHANGED <<nfo, reads>>
            ELSE \E infos \in {Infos(r.result)} :
                 \E k \in {Scan(infos, distro)} :
                   IF k = 0
                   THEN /\ reads' = Append(reads, Read(FALSE, NoInfo, registry, distro))
                        /\ Return(FALSE, "nil", sEmpty)
                        /\ UNCHANGED nfo
                   ELSE /\ reads' = Append(reads, Read(TRUE, infos[k], registry, distro))
                        /\ CASE Decide(infos[k], term) = "ready" ->
                                  Return(TRUE, "nil", sEmpty) /\ UNCHANGED nfo
                             [] Decide(infos[k], term) = "busy" ->
                                  Return(FALSE, "busy", infos[k].name) /\ UNCHANGED nfo
                             [] OTHER ->
                                  /\ nfo' = infos[k]
                                  /\ pc' = "terminate"
                                  /\ UNCHANGED <<Results, fatal, exit>>
    /\ UNCHANGED <<Flags, registry, exportSaw, Disk, cout>>

\* the registry after the host has acted on "--terminate name"
Terminated(reg, name) ==
    [i \in 1..Len(reg) |->
        IF EqualFold(reg[i].name, name) THEN [reg[i] EXCEPT !.state = sStopped]
        ELSE reg[i]]

\* what distroCheck does after its terminate command ended with `e`
AfterTerminateRetry(e) == IF e # "nil" THEN "terminate" ELSE "distroCheck"

AfterTerminateGiveUp(e) == "return"

AfterTerminateIgnore(e) == "distroCheck"

AfterTerminate(e) == IF e # "nil" THEN "return" ELSE "distroCheck"

\* distroCheck's terminate command and what follows it
Terminate ==
    /\ pc = "terminate"
    /\ nTerminate < MaxTerminate
    /\ \E a \in Answers, acted \in BOOLEAN :
       \E flags \in {sTerminate \o nfo.name} :
       \E r \in {wslCmd(flags, a[1], HostBytes(<<>>, a[2]))} :
         /\ a[1] = "start" => acted = FALSE
         /\ cmds' = Append(cmds, Cmd("terminate", wslArgs(flags), r.err))
         /\ registry' = IF acted THEN Terminated(registry, nfo.name) ELSE registry
         /\ IF AfterTerminate(r.err) = "return"
            THEN Return(FALSE, r.err, sEmpty)
            ELSE /\ pc' = AfterTerminate(r.err)
                 /\ UNCHANGED <<Results, fatal, exit>>
    /\ UNCHANGED <<Flags, nfo, reads, exportSaw, Disk, cout>>

\* where main goes after a successful export
AfterExport(z, c) == IF z THEN "zip" ELSE IF c THEN "compact" ELSE "done"

\* main's call of wslExport
Export ==
    /\ pc = "export"
    /\ \E a \in Answers, wrote \in BOOLEAN :
       \E flags \in {ExportCmd(distro, outfmt, sOut)} :
       \E r \in {wslCmd(flags, a[1], HostBytes(<<>>, a[2]))} :
         /\ wrote = (a[1] = "ok") \/ a[1] \in {"read", "exit"}
         /\ cmds' = Append(cmds, Cmd("export", wslArgs(flags), r.err))
         /\ exportSaw' = TargetState(registry, distro)
         /\ ofile' = IF wrote THEN File(Exported) ELSE ofile
         /\ fatal' = IF r.err = "nil" THEN "none" ELSE "export"
         /\ pc' = IF r.err = "nil" THEN AfterExport(outzip, compact) ELSE "fatal"
         /\ exit' = IF r.err # "nil" THEN "1"
                    ELSE IF AfterExport(outzip, compact) = "done" THEN "0"
                    ELSE exit
    /\ UNCHANGED <<Flags, registry, nfo, Results, reads, zfile, removed, zipStep, cout>>

\* main's ZIP branch: zipFile, os.Remove, os.Exit(0)
Zip ==
    /\ pc = "zip"
    /\ \E step \in ZipFailures \cup {"none"}, n \in 0..Len(ofile.data), gone \in BOOLEAN :
       \E r \in {zipFile(sOut, ofile, zfile, step, n)} :
         /\ step \in {"create", "entry", "open"} => n = 0
         /\ cmds' = Append(cmds, Cmd("zip", <<sOut>>, r.err))
         /\ zfile' = r.zip
         /\ zipStep' = IF step # "none" THEN step
                       ELSE IF n < Len(ofile.data) THEN "copy"
                       ELSE "none"
         /\ IF r.err # "nil"
            THEN /\ gone = FALSE
                 /\ fatal' = "zip"
                 /\ pc' = "fatal"
                 /\ exit' = "1"
                 /\ UNCHANGED <<ofile, removed>>
            ELSE /\ RemovesOriginal(keep) \/ gone = FALSE
                 /\ removed' = IF RemovesOriginal(keep) THEN removed + 1 ELSE removed
                 /\ ofile' = IF RemovesOriginal(keep) /\ gone THEN NoFile ELSE ofile
                 /\ fatal' = "none"
                 /\ pc' = "done"
                 /\ exit' = "0"
    /\ UNCHANGED <<Flags, registry, nfo, Results, reads, exportSaw, cout>>

\* main's compact branch
Compact ==
    /\ pc = "compact"
    /\ \E a \in CompactAnswers :
       \E r \in {compactFile(a[1], a[2])} :
         /\ cout' = [ran |-> TRUE, outcome |-> a[1], out |-> a[2],
                     err |-> r.err, msg |-> r.msg]
         /\ cmds' = Append(cmds, Cmd("compact", <<sCompact, sSlashC, sOut>>, r.err))
         /\ fatal' = IF r.err = "nil" THEN "none" ELSE "compact"
         /\ pc' = IF r.err = "nil" THEN "done" ELSE "fatal"
         /\ exit' = IF r.err = "nil" THEN "0" ELSE "1"
    /\ UNCHANGED <<Flags, registry, nfo, Results, reads, exportSaw, Disk>>

\* the host: a guest starts or stops on its own while the run is under way
GuestChange ==
    /\ pc \in {"distroCheck", "terminate", "export"}
    /\ \E i \in 1..Len(registry), s \in {sStopped, sRunning} :
         /\ registry[i].state # s
         /\ registry' = [registry EXCEPT ![i].state = s]
    /\ UNCHANGED <<Flags, pc, nfo, Results, fatal, cmds, reads, exportSaw, Disk, cout, exit>>

Next ==
    \/ Validate
    \/ List
    \/ Terminate
    \/ Export
    \/ Zip
    \/ Compact
    \/ GuestChange

Spec == Init /\ [][Next]_vars

TypeOK ==
    /\ pc \in {"main", "distroCheck", "terminate", "export", "zip", "compact", "done", "fatal"}
    /\ exit \in {"running", "0", "1"}
    /\ (exit = "1") = (pc = "fatal")
    /\ (exit = "0") = (pc = "done")


(***************************************************************************)
(* Properties.                                                             *)
(***************************************************************************)
LastRead == reads[Len(reads)]

\* no well-formed line of the registry's listing carries the name d
Absent(reg, d) ==
    \A i \in 1..Len(reg) : reg[i].nf = 3 => ~EqualFold(reg[i].name, d)

\* C1, as claimed: when the export command is issued the target guest is in
\* the Stopped state, whatever the guest did since the last registry read.
ExportOnlyWhenStopped == nExport > 0 => exportSaw = sStopped

\* C1, amended: when the export command is issued, the last registry read of
\* the run reported the first record matching the target with the literal
\* state Stopped; the state is not checked again before the export.
ExportAfterStoppedRead ==
    nExport > 0 =>
        /\ reads # <<>>
        /\ LastRead.found
        /\ LastRead.info.state = sStopped
        /\ EqualFold(LastRead.info.name, distro)

\* an export issued after a Stopped read while the guest is running again
ExportedWhileRunning ==
    /\ nExport = 1
    /\ LastRead.info.state = sStopped
    /\ exportSaw = sRunning

\* C2: the export command is issued at most once and only after distroCheck
\* returned (true, nil); after (false, nil) or an error no export and no
\* compression step is run.
ExportOnceAfterReady ==
    /\ nExport <= 1
    /\ nExport = 1 => returned /\ ready /\ err = "nil"
    /\ (returned /\ (~ready \/ err # "nil")) =>
           /\ nExport = 0
           /\ nZip = 0
           /\ nCompact = 0
           /\ ~ofile.exists

\* the export has been issued after a resolver that stopped the guest first
ExportedAfterReady ==
    /\ nExport = 1
    /\ returned /\ ready
    /\ nTerminate = 1

\* C3: target running at the first read, force-stop enabled, Stopped at the
\* second read: one terminate command naming the guest between two list
\* commands, and distroCheck returns (true, nil).
TerminateOnceThenReady ==
    (/\ term
     /\ Len(reads) >= 2
     /\ reads[1].found /\ reads[1].info.state # sStopped
     /\ reads[2].found /\ reads[2].info.state = sStopped)
    =>
    (/\ nTerminate = 1
     /\ nList = 2
     /\ Len(reads) = 2
     /\ cmds[1].kind = "list"
     /\ cmds[2] = Cmd("terminate", <<sWsl, <<"-", "-", "t", "e", "r", "m", "i", "n", "a", "t", "e">>,
                                     reads[1].info.name>>, "nil")
     /\ cmds[3].kind = "list"
     /\ returned /\ ready /\ err = "nil")

\* a running target was terminated once and read again as Stopped
TerminatedOnce ==
    /\ term
    /\ Len(reads) = 2
    /\ reads[1].info.state = sRunning
    /\ reads[2].info.state = sStopped
    /\ ready

\* C4, as claimed: a run issues at most one terminate command and reads the
\* registry at most twice.
AtMostOneTerminate == nTerminate <= 1 /\ nList <= 2

\* C4, amended: the only retry is the re-resolution after a forced stop: a
\* command that failed is the last command of the run, every terminate
\* command follows a list command, every list command but the first follows
\* a successful terminate command, and export, zip and compact run at most
\* once; the number of terminate and list rounds has no bound.
OnlyReResolutionRetried ==
    /\ \A i \in 1..(Len(cmds) - 1) : cmds[i].err = "nil"
    /\ \A i \in 1..Len(cmds) :
         /\ cmds[i].kind = "terminate" => i > 1 /\ cmds[i - 1].kind = "list"
         /\ (cmds[i].kind = "list" /\ i > 1) => cmds[i - 1].kind = "terminate"
    /\ nList <= nTerminate + 1
    /\ nExport <= 1
    /\ nZip <= 1
    /\ nCompact <= 1

\* a run that terminated the guest twice and read the registry three times
TerminatedTwice == nTerminate = 2 /\ nList = 3

\* C5: target running at the first read, force-stop disabled: distroCheck
\* fails with the busy error naming the guest, and the list command is the
\* only command of the run.
BusyWithoutForceStop ==
    (/\ ~term
     /\ reads # <<>>
     /\ reads[1].found /\ reads[1].info.state # sStopped)
    =>
    (/\ returned /\ ~ready
     /\ err = "busy"
     /\ errName = reads[1].info.name
     /\ EqualFold(errName, distro)
     /\ fatal = "check"
     /\ nTerminate = 0
     /\ Len(cmds) = 1 /\ cmds[1].kind = "list")

\* the busy error names the running guest as the listing spells it
BusyNamed ==
    /\ ~term
    /\ distro = skali
    /\ reads # <<>> /\ reads[1].info.state = sRunning
    /\ err = "busy" /\ errName = sKali

\* C6: target Stopped at the first read: distroCheck returns (true, nil)
\* after that one list command and no terminate command, with force-stop
\* enabled or not.
StoppedIsReady ==
    (/\ reads # <<>>
     /\ reads[1].found /\ reads[1].info.state = sStopped)
    =>
    (/\ returned /\ ready /\ err = "nil"
     /\ nTerminate = 0
     /\ nList = 1)

\* a Stopped target found ready although force-stop is enabled
StoppedReadyWithForceStop ==
    /\ term
    /\ Len(reads) = 1 /\ reads[1].found /\ reads[1].info.state = sStopped
    /\ returned /\ ready

\* C7: target absent from the listing (a non-empty name that no well-formed
\* line carries, whatever malformed lines the listing holds) and the list
\* command succeeded: distroCheck returns (false, nil) and no terminate
\* command is issued.
AbsentIsNotFound ==
    (/\ distro # sEmpty
     /\ Absent(registry, distro)
     /\ returned
     /\ cmds[1].err = "nil")
    =>
    (/\ ~ready /\ err = "nil"
     /\ fatal = "notfound"
     /\ ~reads[1].found
     /\ nTerminate = 0
     /\ Len(cmds) = 1)

\* not found in a listing whose only data line is malformed
AbsentAmongMalformed ==
    /\ distro = skali
    /\ Len(registry) = 1 /\ registry[1].nf = 2
    /\ returned /\ ~ready /\ err = "nil"

\* C8: with both -z and -c the run is rejected before any external command
\* is run and before any file is created.
ConflictRejectedFirst ==
    (outzip /\ compact) =>
        /\ cmds = <<>>
        /\ ~ofile.exists /\ ~zfile.exists
        /\ pc \in {"main", "fatal"}
        /\ pc = "fatal" => fatal \in {"format", "conflict"}

\* a run rejected for its conflicting compression choice
ConflictRejected ==
    /\ outzip /\ compact
    /\ pc = "fatal" /\ fatal = "conflict" /\ exit = "1"

\* C9: a failure of any step of zipFile (creating the archive, creating the
\* entry, opening or copying the export file, closing) ends the run with an
\* error and the export file in place.
ZipFailureKeepsOriginal ==
    zipStep # "none" =>
        /\ fatal = "zip" /\ exit = "1"
        /\ ofile = File(Exported)

\* C10: a run with -z and without -keep that exits 0 leaves no export file
\* and a closed archive with one entry holding all the exported bytes.
ZipDeleteComplete ==
    (outzip /\ ~keep /\ exit = "0") =>
        /\ ~ofile.exists
        /\ zfile.exists /\ zfile.closed
        /\ zfile.entries = <<[name |-> sOut, data |-> Exported]>>


\* C11: a run with -z and -keep that exits 0 leaves the export file in place
\* with the bytes the export wrote, beside the archive; os.Remove is never
\* called on it.
ZipKeepsOriginal ==
    (outzip /\ keep) =>
        /\ removed = 0
        /\ nExport = 1 /\ cmds[Len(cmds)].kind # "export" => ofile = File(Exported)
        /\ exit = "0" => ofile = File(Exported) /\ zfile.exists /\ zfile.closed

\* a successful run with -z and -keep
ZipKeptOriginal ==
    /\ outzip /\ keep
    /\ exit = "0"
    /\ ofile = File(Exported)
    /\ zfile.entries = <<[name |-> sOut, data |-> Exported]>>


\* the outputs of the compact utility that hold the confirmation phrase
Confirming == {sPhrase, <<"o", "u", "t", SP>> \o sPhrase \o <<".">>}

\* C12, as claimed: compactFile succeeds only when the output holds the
\* phrase, and for any other output the utility ended with it fails with an
\* error that carries the output.
CompactFailureCarriesOutput ==
    (cout.ran /\ cout.outcome \in {"ok", "exit"}) =>
        /\ cout.err = "nil" => cout.out \in Confirming
        /\ cout.out \notin Confirming =>
               /\ cout.err = "compact failed"
               /\ cout.msg = cout.out

\* C12, amended: compactFile succeeds only when the utility exited with
\* status zero and its output holds the phrase; when it exited with status
\* zero and the output does not hold the phrase the error carries the
\* output; when starting, reading or waiting for the utility failed the
\* error is that process error and carries no output.
CompactVerdict ==
    cout.ran =>
        /\ (cout.err = "nil") = (cout.outcome = "ok" /\ cout.out \in Confirming)
        /\ (cout.outcome = "ok" /\ cout.out \notin Confirming) =>
               /\ cout.err = "compact failed"
               /\ cout.msg = cout.out
               /\ fatal = "compact" /\ exit = "1"
        /\ cout.outcome # "ok" => cout.err = cout.outcome /\ cout.msg = <<>>
        /\ (cout.err = "nil") = (exit = "0")

\* the utility exited with status zero without the phrase in its output
CompactRefused ==
    /\ cout.ran /\ cout.outcome = "ok"
    /\ cout.out = sZeroPhrase
    /\ cout.err = "compact failed" /\ cout.msg = sZeroPhrase


\* C13: every error ends the run at once: a command that failed is the last
\* step of the run and the run exits 1; a failure inside the compression
\* step (zipStep) ends the run with exit 1 before the export file is
\* removed; after a failed export neither zipFile, compactFile nor os.Remove
\* is run.
ErrorsEndTheRun ==
    /\ \A i \in 1..(Len(cmds) - 1) : cmds[i].err = "nil"
    /\ (\E i \in 1..Len(cmds) : cmds[i].err # "nil") => exit = "1" /\ fatal # "none"
    /\ zipStep # "none" => exit = "1" /\ removed = 0
    /\ (\E i \in 1..Len(cmds) : cmds[i].kind = "export" /\ cmds[i].err # "nil") =>
           /\ nZip = 0
           /\ nCompact = 0
           /\ removed = 0


\* a read that reported the target in a state other than Stopped
NonStopped(r) == r.found /\ r.info.state # sStopped

\* every list and terminate command so far succeeded
ResolverOk ==
    \A i \in 1..Len(cmds) : cmds[i].kind \in {"list", "terminate"} => cmds[i].err = "nil"

\* C14, as claimed: with force-stop enabled, as long as every registry read
\* reports the target in a non-Stopped state the resolver does not return.
ResolverRunsWhileNonStopped ==
    (/\ term
     /\ reads # <<>>
     /\ \A k \in 1..Len(reads) : NonStopped(reads[k]))
    => ~returned

\* C14, amended: with force-stop enabled the resolver returns at the first
\* read that reports the target Stopped or absent; while the reads report
\* it non-Stopped and the list and terminate commands succeed it does not
\* return and issues a terminate command after every read, with no count
\* of the rounds; it returns on a non-Stopped read only with the error of
\* a failed list or terminate command.
ResolverLoop ==
    (term /\ reads # <<>>) =>
        /\ \A k \in 1..(Len(reads) - 1) : NonStopped(reads[k])
        /\ ~NonStopped(LastRead) =>
               returned /\ err = "nil" /\ ready = LastRead.found
        /\ (NonStopped(LastRead) /\ ResolverOk) =>
               /\ ~returned
               /\ pc \in {"terminate", "distroCheck"}
               /\ (pc = "terminate") = (nTerminate = Len(reads) - 1)
               /\ (pc = "distroCheck") = (nTerminate = Len(reads))
        /\ (returned /\ NonStopped(LastRead)) =>
               /\ ~ResolverOk
               /\ ~ready
               /\ err = cmds[Len(cmds)].err

\* the resolver still going after as many rounds as the model follows
ResolverStillGoing ==
    /\ term /\ ~returned
    /\ nTerminate = MaxTerminate
    /\ Len(reads) = MaxTerminate + 1
    /\ \A k \in 1..Len(reads) : reads[k].info.state = sRunning
    /\ pc = "terminate"


\* C15: the outcome of a registry read is that of the first guest, in
\* listing order, that the target names: the loop stops at its record, and
\* its state alone decides between ready, busy and a terminate command,
\* whatever later lines carry a matching name.
FirstMatchDecides ==
    distro # sEmpty =>
        \A k \in 1..Len(reads) :
            LET r == reads[k]
            IN  /\ r.found = (r.named > 0)
                /\ r.found =>
                       /\ r.info.name = r.first.name
                       /\ r.info.state = r.first.state
                       /\ r.first.state = sStopped =>
                              k = Len(reads) /\ returned /\ ready /\ err = "nil"
                       /\ (r.first.state # sStopped /\ ~term) =>
                              /\ k = Len(reads) /\ returned /\ ~ready
                              /\ err = "busy" /\ errName = r.first.name
                       /\ (r.first.state # sStopped /\ term) =>
                              \/ nTerminate >= k
                              \/ k = Len(reads) /\ pc = "terminate" /\ nfo.name = r.first.name

\* busy on a running first record although a later record of the same name
\* is Stopped
FirstOfTwoDecided ==
    /\ distro = skali /\ ~term
    /\ Len(reads) = 1 /\ reads[1].named = 2
    /\ reads[1].info.name = sKali /\ reads[1].info.state = sRunning
    /\ TargetState(Tail(registry), distro) = sStopped
    /\ err = "busy"


\* C16: a matched record makes the guest ready exactly when its state is
\* the token "Stopped"; with any other token ("Running", "stopped",
\* "Installing", the empty token) the read ends in the busy error when
\* force-stop is disabled, and in a terminate command naming the record,
\* followed by another list command when it succeeds, when it is enabled.
LiteralStopped ==
    \A k \in 1..Len(reads) :
        LET r == reads[k]
        IN  r.found =>
            /\ (r.info.state = sStopped) = (k = Len(reads) /\ returned /\ ready)
            /\ (r.info.state # sStopped /\ ~term) =>
                   /\ k = 1 /\ Len(cmds) = 1
                   /\ returned /\ err = "busy" /\ fatal = "check"
            /\ (r.info.state # sStopped /\ term) =>
                   \/ Len(cmds) = 2 * k - 1 /\ pc = "terminate" /\ nfo = r.info
                   \/ /\ Len(cmds) >= 2 * k
                      /\ cmds[2 * k].kind = "terminate"
                      /\ cmds[2 * k].argv[3] = r.info.name
                      /\ cmds[2 * k].err = "nil" =>
                             \/ Len(cmds) = 2 * k /\ pc = "distroCheck"
                             \/ Len(cmds) > 2 * k /\ cmds[2 * k + 1].kind = "list"

\* the token "stopped" handled as running: busy without force-stop
LowercaseIsBusy ==
    /\ ~term
    /\ Len(reads) = 1 /\ reads[1].info.state = sstopped
    /\ returned /\ ~ready /\ err = "busy"


\* C17: a line that does not split into three fields gives the empty
\* record and the scan goes on: the empty record matches the empty target
\* only; for a non-empty target the loop stops at a record exactly when a
\* well-formed line carries the name, at the first such line, malformed
\* lines before it or not, and that record decides the outcome.
MalformedLineSkipped ==
    \A k \in 1..Len(reads) :
        LET r == reads[k]
        IN  /\ distro = sEmpty => r.found /\ r.info = NoInfo
            /\ distro # sEmpty =>
                   /\ r.found = (r.named > 0)
                   /\ r.found =>
                          r.info = [name |-> r.first.name, state |-> r.first.state,
                                    version |-> sVersion]
                   /\ (r.found /\ r.malformed > 0 /\ k = Len(reads) /\ returned /\ ResolverOk) =>
                          /\ ready = (r.first.state = sStopped)
                          /\ (err = "busy") = (r.first.state # sStopped)
                   /\ (~r.found /\ returned /\ ResolverOk) => ~ready /\ err = "nil"

\* a running guest found behind a malformed line that carries its name
FoundBehindMalformed ==
    /\ distro = skali /\ ~term
    /\ Len(reads) = 1 /\ reads[1].malformed = 1
    /\ reads[1].info.name = sKali /\ reads[1].info.state = sRunning
    /\ registry[1].nf = 4 /\ EqualFold(registry[1].name, distro)
    /\ err = "busy" /\ errName = sKali


\* C18: a terminate command that fails is the last command of the run:
\* distroCheck returns its error with ready = false, the registry is not
\* read again and no export command is issued.
TerminateFailureEndsRun ==
    \A i \in 1..Len(cmds) :
        (cmds[i].kind = "terminate" /\ cmds[i].err # "nil") =>
            /\ i = Len(cmds)
            /\ returned /\ ~ready /\ err = cmds[i].err
            /\ fatal = "check" /\ exit = "1"
            /\ nList = nTerminate
            /\ Len(reads) = nTerminate
            /\ nExport = 0 /\ ~ofile.exists

\* a run ended by a terminate command that exited non-zero
TerminateFailed ==
    /\ Len(cmds) = 2
    /\ cmds[2].kind = "terminate" /\ cmds[2].err = "exit"
    /\ returned /\ err = "exit" /\ pc = "fatal"

====
